---- MODULE Spec2Model ----
(***************************************************************************)
(* Loan service: the loan aggregate (internal/domain/loan.go), the         *)
(* lifecycle graph (internal/domain/fsm.go), the service operations        *)
(* (internal/service/loan_service.go) and the GORM-backed repository       *)
(* (internal/repository/loan_repository.go).                               *)
(*                                                                         *)
(* Amounts are float64 in the source; the model uses integers (minor       *)
(* units), so rounding of binary fractions is outside the model.           *)
(* Timestamps (CreatedAt, UpdatedAt, ApprovalDate, DisbursementDate) and   *)
(* BorrowerID are never read by the guarded logic and are left out.        *)
(***************************************************************************)
EXTENDS Integers, Sequences, FiniteSets, TLC

\* ------------------------------------------------------------------ bounds
MaxLoans == 1        \* loan ids uuid.New() can hand out
MaxPrincipal == 2    \* largest principal_amount a request carries
MaxAmount == 3       \* largest investment amount a request carries
MaxInvestments == 2  \* investment ids uuid.New() can hand out
MaxRequests == 2     \* service calls in flight at once

\* ------------------------------------------------------------------ values
StatusProposed == "proposed"
StatusApproved == "approved"
StatusInvested == "invested"
StatusDisbursed == "disbursed"

LoanStatus == {StatusProposed, StatusApproved, StatusInvested, StatusDisbursed}

\* A nil *ApprovalDetails / *DisbursementDetails pointer.
Nil == [nil |-> TRUE]

OK == "ok"
ErrRecordNotFound == "record not found"
ErrUpdateStatus == "can only update loans in proposed status"
ErrDeleteStatus == "can only delete loans in proposed status"
ErrApproveStatus == "can only approve loans in proposed status"
ErrDisburseStatus == "can only disburse fully invested loans"
ErrNotApproved == "loan is not in approved status"
ErrExceedsPrincipal == "total investment amount would exceed loan principal"
ErrInvalidTransition == "invalid state transition"

\* The i-th identifier uuid.New() hands out.
LoanID(i) == ToString(i)
LoanIDs == {LoanID(i) : i \in 1..MaxLoans}

\* ------------------------------------------------------------------ inputs
\* CreateLoanRequest: principal_amount, rate, roi carry binding "gt=0".
CreatePrincipals == 1..MaxPrincipal
CreateRates == {1}
CreateROIs == {1}
\* UpdateLoanRequest: optional fields, no range validation.  A key of the
\* updates map is either missing (<<>>) or holds one value (<<v>>).
Has(opt) == Len(opt) = 1
NoUpdates ==
    [principal_amount |-> <<>>, rate |-> <<>>, roi |-> <<>>,
     agreement_letter_link |-> <<>>]
UpdatePrincipals == {0 - 1} \cup (1..MaxPrincipal)
LinkInputs == {"", "https://example.com/custom.pdf"}
UpdateInputs ==
    {NoUpdates}
    \cup {[NoUpdates EXCEPT !.principal_amount = <<p>>] : p \in UpdatePrincipals}
    \cup {[NoUpdates EXCEPT !.rate = <<2>>, !.roi = <<2>>]}
    \cup {[NoUpdates EXCEPT !.agreement_letter_link = <<k>>] : k \in LinkInputs}
    \cup {[principal_amount |-> <<1>>, rate |-> <<1>>, roi |-> <<1>>,
           agreement_letter_link |-> <<"">>]}
\* InvestLoanRequest: amount carries binding "gt=0".
InvestorIDs == {"investor_001", "investor_002"}
AmountInputs == 1..MaxAmount
ApprovalInputs ==
    {[FieldValidatorProof |-> "proof.jpg", FieldValidatorID |-> v] :
        v \in {"validator_001", "validator_002"}}
DisbursementInputs ==
    {[SignedAgreementLink |-> "signed.pdf", FieldOfficerID |-> o] :
        o \in {"officer_001", "officer_002"}}
Requests == 1..MaxRequests

\* ------------------------------------------------------------------ state
VARIABLES
    loans,             \* table loans: id -> row (DeletedAt set = soft-deleted)
    investments,       \* table investments, in insertion order
    nextLoanID,        \* number of loan ids handed out so far
    nextInvestmentID,  \* number of investment ids handed out so far
    pending            \* per request: what the call in flight holds (the save or
                       \* delete it has still to issue, the FSM object it built)

vars == <<loans, investments, nextLoanID, nextInvestmentID, pending>>

Idle == [op |-> "idle"]

Init ==
    /\ loans = [id \in {} |-> Nil]
    /\ investments = <<>>
    /\ nextLoanID = 0
    /\ nextInvestmentID = 0
    /\ pending = [r \in Requests |-> Idle]


\* ------------------------------------------------------------------ domain: lifecycle graph
NewFSM ==
    [CurrentState |-> StatusProposed,
     Transitions |->
        << [From |-> StatusProposed, To |-> StatusApproved, Action |-> "approve"],
           [From |-> StatusApproved, To |-> StatusInvested, Action |-> "invest"],
           [From |-> StatusInvested, To |-> StatusDisbursed, Action |-> "disburse"] >>]

\* Mutant of CanTransition: every edge out of the current state will do.
CanTransitionAnywhere(fsm, to) ==
    \E i \in 1..Len(fsm.Transitions) : fsm.Transitions[i].From = fsm.CurrentState

CanTransition(fsm, to) ==
    \E i \in 1..Len(fsm.Transitions) :
        /\ fsm.Transitions[i].From = fsm.CurrentState
        /\ fsm.Transitions[i].To = to

\* Returns the error and the FSM after the call.
Transition(fsm, to) ==
    IF ~CanTransition(fsm, to)
    THEN [err |-> ErrInvalidTransition, fsm |-> fsm]
    ELSE [err |-> OK, fsm |-> [fsm EXCEPT !.CurrentState = to]]

GetCurrentState(fsm) == fsm.CurrentState

SetCurrentState(fsm, state) == [fsm EXCEPT !.CurrentState = state]

\* Mutant of GetValidTransitions: the edges that lead to the current state.
GetValidTransitionsByTarget(fsm) ==
    SelectSeq(fsm.Transitions, LAMBDA t : t.To = fsm.CurrentState)

GetValidTransitions(fsm) ==
    SelectSeq(fsm.Transitions, LAMBDA t : t.From = fsm.CurrentState)

\* ------------------------------------------------------------------ domain: loan aggregate
\* Mutant of CanUpdate: edits accepted until the loan is funded.
CanUpdateBeforeFunding(l) == l.Status \in {StatusProposed, StatusApproved}

CanUpdate(l) == l.Status = StatusProposed

\* Mutants of CanDelete: deletion accepted until the loan is funded, or again
\* once the loan is paid out.
CanDeleteWhenPaidOut(l) == l.Status \in {StatusProposed, StatusDisbursed}

CanDeleteBeforeFunding(l) == l.Status \in {StatusProposed, StatusApproved}

CanDelete(l) == l.Status = StatusProposed

\* Mutant of CanApprove: the guard lets every loan through.
CanApproveAlways(l) == l.Status \in LoanStatus

CanApprove(l) == l.Status = StatusProposed

\* Mutants of CanInvest: investments accepted before the approval, or until the
\* disbursement.
CanInvestBeforeFunding(l) == l.Status \in {StatusProposed, StatusApproved}

CanInvestUnlessDisbursed(l) == l.Status # StatusDisbursed

CanInvest(l) == l.Status = StatusApproved

\* Mutants of CanDisburse: the guard forgets the status, or lets a disbursed
\* loan through again.
CanDisburseAnyStatus(l) == l.TotalInvested >= l.PrincipalAmount

CanDisburseAgain(l) ==
    l.Status \in {StatusInvested, StatusDisbursed} /\ l.TotalInvested >= l.PrincipalAmount

CanDisburse(l) ==
    l.Status = StatusInvested /\ l.TotalInvested >= l.PrincipalAmount

\* Mutant of ExceedsPrincipal: the capacity check forgets what is already invested.
ExceedsPrincipalAmountOnly(l, amount) == amount > l.PrincipalAmount

\* The capacity check of AddInvestment.
ExceedsPrincipal(l, amount) == l.TotalInvested + amount > l.PrincipalAmount

\* Mutant of FullyInvested: an exact fill does not count as funded.
FullyInvestedStrict(l) == l.TotalInvested > l.PrincipalAmount

\* The funding check at the end of AddInvestment.
FullyInvested(l) == l.TotalInvested >= l.PrincipalAmount

\* Mutants of AddInvestment: the capacity check comes before the status check,
\* or an investor who holds a record of the loan is turned away.
AddInvestmentCapacityFirst(l, investorID, amount, uuid) ==
    IF ExceedsPrincipal(l, amount)
    THEN [err |-> ErrExceedsPrincipal, loan |-> l]
    ELSE IF ~CanInvest(l)
    THEN [err |-> ErrNotApproved, loan |-> l]
    ELSE LET investment == [ID |-> uuid, LoanID |-> l.ID,
                            InvestorID |-> investorID, Amount |-> amount]
             l1 == [l EXCEPT !.Investments = Append(@, investment),
                             !.TotalInvested = @ + amount]
         IN  [err |-> OK,
              loan |-> IF FullyInvested(l1)
                       THEN [l1 EXCEPT !.Status = StatusInvested]
                       ELSE l1]

AddInvestmentOncePerInvestor(l, investorID, amount, uuid) ==
    IF ~CanInvest(l)
    THEN [err |-> ErrNotApproved, loan |-> l]
    ELSE IF \/ ExceedsPrincipal(l, amount)
            \/ \E k \in 1..Len(l.Investments) : l.Investments[k].InvestorID = investorID
    THEN [err |-> ErrExceedsPrincipal, loan |-> l]
    ELSE LET investment == [ID |-> uuid, LoanID |-> l.ID,
                            InvestorID |-> investorID, Amount |-> amount]
             l1 == [l EXCEPT !.Investments = Append(@, investment),
                             !.TotalInvested = @ + amount]
         IN  [err |-> OK,
              loan |-> IF FullyInvested(l1)
                       THEN [l1 EXCEPT !.Status = StatusInvested]
                       ELSE l1]

\* Returns the error and the loan after the call; uuid is the identifier
\* uuid.New() hands out for the new investment record.
AddInvestment(l, investorID, amount, uuid) ==
    IF ~CanInvest(l)
    THEN [err |-> ErrNotApproved, loan |-> l]
    ELSE IF ExceedsPrincipal(l, amount)
    THEN [err |-> ErrExceedsPrincipal, loan |-> l]
    ELSE LET investment == [ID |-> uuid, LoanID |-> l.ID,
                            InvestorID |-> investorID, Amount |-> amount]
             l1 == [l EXCEPT !.Investments = Append(@, investment),
                             !.TotalInvested = @ + amount]
         IN  [err |-> OK,
              loan |-> IF FullyInvested(l1)
                       THEN [l1 EXCEPT !.Status = StatusInvested]
                       ELSE l1]

\* Mutant of generateAgreementLetterLink: one link for every loan.
generateAgreementLetterLinkFixed(loanID) ==
    "https://example.com/agreements/loan_agreement.pdf"

generateAgreementLetterLink(loanID) ==
    "https://example.com/agreements/loan_" \o loanID \o "_agreement.pdf"

\* ------------------------------------------------------------------ repository (GORM)
\* The columns of table loans: the Loan struct without its has-many association.
\* Mutants of Row: a detail record is not written to its columns.
RowWithoutApproval(l) ==
    [ID |-> l.ID, PrincipalAmount |-> l.PrincipalAmount, Rate |-> l.Rate,
     ROI |-> l.ROI, AgreementLetterLink |-> l.AgreementLetterLink,
     Status |-> l.Status, ApprovalDetails |-> Nil,
     TotalInvested |-> l.TotalInvested,
     DisbursementDetails |-> l.DisbursementDetails, DeletedAt |-> l.DeletedAt]

RowWithoutDisbursement(l) ==
    [ID |-> l.ID, PrincipalAmount |-> l.PrincipalAmount, Rate |-> l.Rate,
     ROI |-> l.ROI, AgreementLetterLink |-> l.AgreementLetterLink,
     Status |-> l.Status, ApprovalDetails |-> l.ApprovalDetails,
     TotalInvested |-> l.TotalInvested,
     DisbursementDetails |-> Nil, DeletedAt |-> l.DeletedAt]

Row(l) ==
    [ID |-> l.ID, PrincipalAmount |-> l.PrincipalAmount, Rate |-> l.Rate,
     ROI |-> l.ROI, AgreementLetterLink |-> l.AgreementLetterLink,
     Status |-> l.Status, ApprovalDetails |-> l.ApprovalDetails,
     TotalInvested |-> l.TotalInvested,
     DisbursementDetails |-> l.DisbursementDetails, DeletedAt |-> l.DeletedAt]

\* Preload("Investments"): the rows of table investments with this loan_id.
Preload(id) == SelectSeq(investments, LAMBDA i : i.LoanID = id)

\* A row is visible to queries unless it is soft-deleted (gorm.DeletedAt).
Visible(id) == id \in DOMAIN loans /\ ~loans[id].DeletedAt

FindByID(id) ==
    IF Visible(id)
    THEN LET row == loans[id]
         IN  [err |-> OK,
              loan |-> [ID |-> row.ID, PrincipalAmount |-> row.PrincipalAmount,
                        Rate |-> row.Rate, ROI |-> row.ROI,
                        AgreementLetterLink |-> row.AgreementLetterLink,
                        Status |-> row.Status,
                        ApprovalDetails |-> row.ApprovalDetails,
                        Investments |-> Preload(id),
                        TotalInvested |-> row.TotalInvested,
                        DisbursementDetails |-> row.DisbursementDetails,
                        DeletedAt |-> row.DeletedAt]]
    ELSE [err |-> ErrRecordNotFound, loan |-> Nil]

\* Saving the has-many association: INSERT ... ON CONFLICT (id) DO UPDATE SET
\* loan_id: records whose id is new are inserted, stored ones keep their columns.
StoredInvestmentIDs == {investments[i].ID : i \in 1..Len(investments)}

\* Mutants of SaveAssociations: the new records are put in front of the stored
\* ones, or the save leaves the association out.
SaveAssociationsInFront(l) ==
    SelectSeq(l.Investments, LAMBDA i : i.ID \notin StoredInvestmentIDs) \o investments

SaveAssociationsOmitted(l) == investments

SaveAssociations(l) ==
    investments \o SelectSeq(l.Investments, LAMBDA i : i.ID \notin StoredInvestmentIDs)

\* db.Create(loan): BeforeCreate assigns the id, the row and its association
\* records are inserted.
Create(l) ==
    /\ loans' = [id \in DOMAIN loans \cup {l.ID} |->
                    IF id = l.ID THEN Row(l) ELSE loans[id]]
    /\ investments' = SaveAssociations(l)

\* db.Save(loan): UPDATE of every column WHERE id = ? AND deleted_at IS NULL, then
\* the association upsert.  When the UPDATE matches no row (the loan was
\* soft-deleted since it was loaded), GORM releases differ: older ones stop there,
\* newer ones fall back to INSERT ... ON CONFLICT DO UPDATE of all columns, which
\* rewrites the row with deleted_at NULL.
Update(l) ==
    /\ investments' = SaveAssociations(l)
    /\ IF Visible(l.ID)
       THEN loans' = [loans EXCEPT ![l.ID] = Row(l)]
       ELSE \E upsert \in BOOLEAN :
                loans' = IF upsert THEN [loans EXCEPT ![l.ID] = Row(l)] ELSE loans

\* Mutant of Delete: the delete carries no condition on the id.
DeleteEveryRow(id) ==
    /\ loans' = [i \in DOMAIN loans |-> [loans[i] EXCEPT !.DeletedAt = TRUE]]
    /\ investments' = investments

\* db.Delete(&Loan{}, "id = ?", id): soft delete, UPDATE deleted_at.
Delete(id) ==
    /\ loans' = [i \in DOMAIN loans |->
                    IF i = id THEN [loans[i] EXCEPT !.DeletedAt = TRUE] ELSE loans[i]]
    /\ investments' = investments


\* ------------------------------------------------------------------ service: up to the save
\* Each operator is the part of a service method that precedes its one write:
\* the load, the guards and the in-memory mutation.  It returns the error, or
\* OK and the loan the method hands to the repository.
Result(err, l) == [err |-> err, loan |-> l]

\* The loan a caller builds from a CreateLoanRequest; CreateLoan resets Status
\* and TotalInvested, BeforeCreate assigns the id.
NewLoan(principal, rate, roi) ==
    [ID |-> LoanID(nextLoanID + 1), PrincipalAmount |-> principal, Rate |-> rate,
     ROI |-> roi, AgreementLetterLink |-> "", Status |-> StatusProposed,
     ApprovalDetails |-> Nil, Investments |-> <<>>, TotalInvested |-> 0,
     DisbursementDetails |-> Nil, DeletedAt |-> FALSE]

ApplyUpdates(l, updates) ==
    LET l1 == IF Has(updates.principal_amount)
              THEN [l EXCEPT !.PrincipalAmount = updates.principal_amount[1]] ELSE l
        l2 == IF Has(updates.rate) THEN [l1 EXCEPT !.Rate = updates.rate[1]] ELSE l1
        l3 == IF Has(updates.roi) THEN [l2 EXCEPT !.ROI = updates.roi[1]] ELSE l2
    IN  IF Has(updates.agreement_letter_link)
        THEN [l3 EXCEPT !.AgreementLetterLink = updates.agreement_letter_link[1]]
        ELSE l3

UpdateLoanLoad(id, updates) ==
    LET found == FindByID(id)
    IN  IF found.err # OK THEN Result(found.err, Nil)
        ELSE IF ~CanUpdate(found.loan) THEN Result(ErrUpdateStatus, Nil)
        ELSE Result(OK, ApplyUpdates(found.loan, updates))

DeleteLoanLoad(id) ==
    LET found == FindByID(id)
    IN  IF found.err # OK THEN Result(found.err, Nil)
        ELSE IF ~CanDelete(found.loan) THEN Result(ErrDeleteStatus, Nil)
        ELSE Result(OK, found.loan)

\* Mutant of ApproveLoanLoad: the approval also clears the agreement letter link.
ApproveLoanLoadClearingLink(id, approvalDetails) ==
    LET found == FindByID(id)
    IN  IF found.err # OK THEN Result(found.err, Nil)
        ELSE IF ~CanApprove(found.loan) THEN Result(ErrApproveStatus, Nil)
        ELSE Result(OK, [found.loan EXCEPT
                           !.Status = StatusApproved,
                           !.ApprovalDetails = approvalDetails,
                           !.AgreementLetterLink = ""])

ApproveLoanLoad(id, approvalDetails) ==
    LET found == FindByID(id)
    IN  IF found.err # OK THEN Result(found.err, Nil)
        ELSE IF ~CanApprove(found.loan) THEN Result(ErrApproveStatus, Nil)
        ELSE LET t == Transition(SetCurrentState(NewFSM, found.loan.Status),
                                 StatusApproved)
             IN  IF t.err # OK THEN Result(t.err, Nil)
                 ELSE Result(OK, [found.loan EXCEPT
                                    !.Status = GetCurrentState(t.fsm),
                                    !.ApprovalDetails = approvalDetails])

InvestInLoanLoad(id, investorID, amount) ==
    LET found == FindByID(id)
    IN  IF found.err # OK THEN Result(found.err, Nil)
        ELSE LET a == AddInvestment(found.loan, investorID, amount,
                                    nextInvestmentID + 1)
             IN  IF a.err # OK THEN Result(a.err, Nil)
                 ELSE IF a.loan.Status = StatusInvested
                 THEN Result(OK, [a.loan EXCEPT !.AgreementLetterLink =
                                     generateAgreementLetterLink(a.loan.ID)])
                 ELSE Result(OK, a.loan)

DisburseLoanLoad(id, disbursementDetails) ==
    LET found == FindByID(id)
    IN  IF found.err # OK THEN Result(found.err, Nil)
        ELSE IF ~CanDisburse(found.loan) THEN Result(ErrDisburseStatus, Nil)
        ELSE LET t == Transition(SetCurrentState(NewFSM, found.loan.Status),
                                 StatusDisbursed)
             IN  IF t.err # OK THEN Result(t.err, Nil)
                 ELSE Result(OK, [found.loan EXCEPT
                                    !.Status = GetCurrentState(t.fsm),
                                    !.DisbursementDetails = disbursementDetails])

\* GetLoan and GetLoanTransitions write nothing; each returns what it read.
GetLoan(id) == FindByID(id)

\* Mutant of GetLoanTransitions: the FSM is left in its initial state.
GetLoanTransitionsFromProposed(id) ==
    LET found == FindByID(id)
    IN  IF found.err # OK THEN [err |-> found.err, transitions |-> <<>>]
        ELSE [err |-> OK, transitions |-> GetValidTransitions(NewFSM)]

GetLoanTransitions(id) ==
    LET found == FindByID(id)
    IN  IF found.err # OK THEN [err |-> found.err, transitions |-> <<>>]
        ELSE [err |-> OK,
              transitions |->
                 GetValidTransitions(SetCurrentState(NewFSM, found.loan.Status))]

\* ------------------------------------------------------------------ HTTP handlers: the response to an error
\* The status code and the error title a handler answers with, given the error
\* its service call returned.
Response(code, title) == [code |-> code, error |-> title]

LoanHandlerGetLoan(id) ==
    LET err == GetLoan(id).err
    IN  IF err = OK THEN Response(200, "")
        ELSE IF err = ErrRecordNotFound THEN Response(404, "Not found")
        ELSE Response(500, "Database error")

LoanHandlerUpdateLoan(id, updates) ==
    LET err == UpdateLoanLoad(id, updates).err
    IN  IF err = OK THEN Response(200, "")
        ELSE IF err = ErrUpdateStatus THEN Response(400, "Invalid operation")
        ELSE Response(500, "Database error")

LoanHandlerDeleteLoan(id) ==
    LET err == DeleteLoanLoad(id).err
    IN  IF err = OK THEN Response(200, "")
        ELSE IF err = ErrDeleteStatus THEN Response(400, "Invalid operation")
        ELSE Response(500, "Database error")

LoanHandlerApproveLoan(id, approvalDetails) ==
    LET err == ApproveLoanLoad(id, approvalDetails).err
    IN  IF err = OK THEN Response(200, "")
        ELSE IF err = ErrApproveStatus THEN Response(400, "Invalid operation")
        ELSE Response(500, "Database error")

LoanHandlerInvestLoan(id, investorID, amount) ==
    LET err == InvestInLoanLoad(id, investorID, amount).err
    IN  IF err = OK THEN Response(200, "")
        ELSE Response(400, "Investment error")

LoanHandlerDisburseLoan(id, disbursementDetails) ==
    LET err == DisburseLoanLoad(id, disbursementDetails).err
    IN  IF err = OK THEN Response(200, "")
        ELSE IF err = ErrDisburseStatus THEN Response(400, "Invalid operation")
        ELSE Response(500, "Database error")

LoanHandlerGetLoanTransitions(id) ==
    LET err == GetLoanTransitions(id).err
    IN  IF err = OK THEN Response(200, "")
        ELSE IF err = ErrRecordNotFound THEN Response(404, "Not found")
        ELSE Response(500, "Database error")

\* ------------------------------------------------------------------ service calls, one at a time
\* A call that returns an error (c.err # OK) returns before its write.
CreateLoan(principal, rate, roi) ==
    /\ nextLoanID < MaxLoans
    /\ Create(NewLoan(principal, rate, roi))
    /\ nextLoanID' = nextLoanID + 1
    /\ UNCHANGED <<nextInvestmentID, pending>>

UpdateLoan(id, updates) ==
    LET c == UpdateLoanLoad(id, updates)
    IN  /\ IF c.err # OK THEN UNCHANGED <<loans, investments>> ELSE Update(c.loan)
        /\ UNCHANGED <<nextLoanID, nextInvestmentID, pending>>

DeleteLoan(id) ==
    LET c == DeleteLoanLoad(id)
    IN  /\ IF c.err # OK THEN UNCHANGED <<loans, investments>> ELSE Delete(id)
        /\ UNCHANGED <<nextLoanID, nextInvestmentID, pending>>

ApproveLoan(id, approvalDetails) ==
    LET c == ApproveLoanLoad(id, approvalDetails)
    IN  /\ IF c.err # OK THEN UNCHANGED <<loans, investments>> ELSE Update(c.loan)
        /\ UNCHANGED <<nextLoanID, nextInvestmentID, pending>>

InvestInLoan(id, investorID, amount) ==
    LET c == InvestInLoanLoad(id, investorID, amount)
    IN  /\ UNCHANGED <<nextLoanID, pending>>
        /\ IF c.err # OK
           THEN UNCHANGED <<nextInvestmentID, loans, investments>>
           ELSE /\ nextInvestmentID < MaxInvestments
                /\ nextInvestmentID' = nextInvestmentID + 1
                /\ Update(c.loan)

DisburseLoan(id, disbursementDetails) ==
    LET c == DisburseLoanLoad(id, disbursementDetails)
    IN  /\ IF c.err # OK THEN UNCHANGED <<loans, investments>> ELSE Update(c.loan)
        /\ UNCHANGED <<nextLoanID, nextInvestmentID, pending>>

Next ==
    \/ \E p \in CreatePrincipals, rate \in CreateRates, roi \in CreateROIs :
          CreateLoan(p, rate, roi)
    \/ \E id \in LoanIDs, u \in UpdateInputs : UpdateLoan(id, u)
    \/ \E id \in LoanIDs : DeleteLoan(id)
    \/ \E id \in LoanIDs, a \in ApprovalInputs : ApproveLoan(id, a)
    \/ \E id \in LoanIDs, i \in InvestorIDs, amount \in AmountInputs :
          InvestInLoan(id, i, amount)
    \/ \E id \in LoanIDs, d \in DisbursementInputs : DisburseLoan(id, d)

Spec == Init /\ [][Next]_vars

\* The service called directly, as the service tests call it: InvestInLoan takes
\* a float64 amount and nothing below the HTTP binding checks its sign.
ServiceAmountInputs == {0 - 1, 0} \cup AmountInputs

\* A loan struct as a caller of the service can fill it in: every field of Loan
\* is exported.  The identifiers are left empty for the BeforeCreate hooks.
CallerLoan(status, total, approval, records, disbursement) ==
    [ID |-> "", PrincipalAmount |-> 1, Rate |-> 1, ROI |-> 1,
     AgreementLetterLink |-> "", Status |-> status, ApprovalDetails |-> approval,
     Investments |-> records, TotalInvested |-> total,
     DisbursementDetails |-> disbursement, DeletedAt |-> FALSE]

CallerLoans ==
    {CallerLoan(StatusDisbursed, 1, Nil, <<>>, Nil),
     CallerLoan(StatusProposed, 0,
                [FieldValidatorProof |-> "proof.jpg",
                 FieldValidatorID |-> "validator_001"], <<>>, Nil),
     CallerLoan(StatusInvested, 1, Nil,
                <<[ID |-> "", LoanID |-> "", InvestorID |-> "investor_001",
                   Amount |-> 1]>>,
                [SignedAgreementLink |-> "signed.pdf",
                 FieldOfficerID |-> "officer_001"])}

\* Loan.BeforeCreate and Investment.BeforeCreate: an empty ID gets a new
\* identifier; GORM sets the foreign key of the association records.
BeforeCreate(l) ==
    LET id == IF l.ID = "" THEN LoanID(nextLoanID + 1) ELSE l.ID
    IN  [l EXCEPT !.ID = id,
                  !.Investments =
                      [k \in 1..Len(l.Investments) |->
                          [l.Investments[k] EXCEPT
                              !.ID = IF @ = "" THEN nextInvestmentID + k ELSE @,
                              !.LoanID = id]]]

\* loanService.CreateLoan on a caller-built loan: Status and TotalInvested are
\* reset, the rest of the struct goes to db.Create as it came.
CreateLoanCallerBuilt(given) ==
    /\ nextLoanID < MaxLoans
    /\ nextInvestmentID + Len(given.Investments) <= MaxInvestments
    /\ Create(BeforeCreate([given EXCEPT !.Status = StatusProposed,
                                         !.TotalInvested = 0]))
    /\ nextLoanID' = nextLoanID + 1
    /\ nextInvestmentID' = nextInvestmentID + Len(given.Investments)
    /\ UNCHANGED pending

NextService ==
    \/ \E given \in CallerLoans : CreateLoanCallerBuilt(given)
    \/ \E p \in CreatePrincipals, rate \in CreateRates, roi \in CreateROIs :
          CreateLoan(p, rate, roi)
    \/ \E id \in LoanIDs, u \in UpdateInputs : UpdateLoan(id, u)
    \/ \E id \in LoanIDs : DeleteLoan(id)
    \/ \E id \in LoanIDs, a \in ApprovalInputs : ApproveLoan(id, a)
    \/ \E id \in LoanIDs, i \in InvestorIDs, amount \in ServiceAmountInputs :
          InvestInLoan(id, i, amount)
    \/ \E id \in LoanIDs, d \in DisbursementInputs : DisburseLoan(id, d)

SpecService == Init /\ [][NextService]_vars

\* ------------------------------------------------------------------ service calls whose write fails
\* gorm.Open is given a Config without SkipDefaultTransaction, so db.Save and
\* db.Delete run their statements inside one transaction: db.Save is the UPDATE
\* of the row followed by the association upsert.  A statement or the commit can
\* fail; GORM then rolls the transaction back and the service returns the error.
SaveStages == 0..2

\* The updates this specification offers: none, a new principal, new terms.
FailedSaveUpdateInputs ==
    {NoUpdates, [NoUpdates EXCEPT !.principal_amount = <<1>>],
     [NoUpdates EXCEPT !.rate = <<2>>, !.roi = <<2>>]}

\* The tables after the first n statements of db.Save(l).
SaveStatements(l, n) ==
    [loans |-> IF n >= 1 THEN [loans EXCEPT ![l.ID] = Row(l)] ELSE loans,
     investments |-> IF n >= 2 THEN SaveAssociations(l) ELSE investments]

\* Mutant of Rollback: the statements run outside a transaction, what was
\* written before the failure stays.
RollbackSkipped(before, written) == written

\* The tables after the rollback of a transaction that started from `before`.
Rollback(before, written) == before

\* s.repo.Update(loan) returning an error after n statements.
UpdateFails(l) ==
    \E n \in SaveStages :
        LET db == Rollback([loans |-> loans, investments |-> investments],
                           SaveStatements(l, n))
        IN  loans' = db.loans /\ investments' = db.investments

\* s.repo.Delete(id) returning an error: its one statement did not commit.
DeleteFails(id) ==
    LET db == Rollback([loans |-> loans, investments |-> investments],
                       [loans |-> loans, investments |-> investments])
    IN  loans' = db.loans /\ investments' = db.investments

UpdateLoanFailedSave(id, updates) ==
    LET c == UpdateLoanLoad(id, updates)
    IN  /\ UNCHANGED <<nextLoanID, nextInvestmentID, pending>>
        /\ c.err = OK
        /\ UpdateFails(c.loan)

DeleteLoanFailedDelete(id) ==
    LET c == DeleteLoanLoad(id)
    IN  /\ UNCHANGED <<nextLoanID, nextInvestmentID, pending>>
        /\ c.err = OK
        /\ DeleteFails(id)

ApproveLoanFailedSave(id, approvalDetails) ==
    LET c == ApproveLoanLoad(id, approvalDetails)
    IN  /\ UNCHANGED <<nextLoanID, nextInvestmentID, pending>>
        /\ c.err = OK
        /\ UpdateFails(c.loan)

\* The identifier of the investment record that was not saved is used up.
InvestInLoanFailedSave(id, investorID, amount) ==
    LET c == InvestInLoanLoad(id, investorID, amount)
    IN  /\ UNCHANGED <<nextLoanID, pending>>
        /\ nextInvestmentID < MaxInvestments
        /\ nextInvestmentID' = nextInvestmentID + 1
        /\ c.err = OK
        /\ UpdateFails(c.loan)

DisburseLoanFailedSave(id, disbursementDetails) ==
    LET c == DisburseLoanLoad(id, disbursementDetails)
    IN  /\ UNCHANGED <<nextLoanID, nextInvestmentID, pending>>
        /\ c.err = OK
        /\ UpdateFails(c.loan)

NextFailedSave ==
    \/ \E p \in CreatePrincipals, rate \in CreateRates, roi \in CreateROIs :
          CreateLoan(p, rate, roi)
    \/ \E id \in LoanIDs, u \in FailedSaveUpdateInputs : UpdateLoan(id, u)
    \/ \E id \in LoanIDs : DeleteLoan(id)
    \/ \E id \in LoanIDs, a \in ApprovalInputs : ApproveLoan(id, a)
    \/ \E id \in LoanIDs, i \in InvestorIDs, amount \in AmountInputs :
          InvestInLoan(id, i, amount)
    \/ \E id \in LoanIDs, d \in DisbursementInputs : DisburseLoan(id, d)
    \/ \E id \in LoanIDs, u \in FailedSaveUpdateInputs : UpdateLoanFailedSave(id, u)
    \/ \E id \in LoanIDs : DeleteLoanFailedDelete(id)
    \/ \E id \in LoanIDs, a \in ApprovalInputs : ApproveLoanFailedSave(id, a)
    \/ \E id \in LoanIDs, i \in InvestorIDs, amount \in AmountInputs :
          InvestInLoanFailedSave(id, i, amount)
    \/ \E id \in LoanIDs, d \in DisbursementInputs : DisburseLoanFailedSave(id, d)

SpecFailedSave == Init /\ [][NextFailedSave]_vars


\* ------------------------------------------------------------------ service calls in flight together
\* Nothing serialises two calls: the service holds no lock and opens no
\* transaction around its load and its save, so the database statements of
\* different requests interleave.  A call is two steps: Begin (FindByID, the
\* guards, the in-memory mutation) and Finish (the one write).  A call that
\* fails a guard returns at Begin.
SavingOps == {"update", "approve", "invest", "disburse"}

Saving(op, l) == [op |-> op, loan |-> l]

BeginUpdateLoan(r, id, updates) ==
    /\ pending[r] = Idle
    /\ LET c == UpdateLoanLoad(id, updates)
       IN  IF c.err # OK THEN UNCHANGED pending
           ELSE pending' = [pending EXCEPT ![r] = Saving("update", c.loan)]
    /\ UNCHANGED <<loans, investments, nextLoanID, nextInvestmentID>>

BeginDeleteLoan(r, id) ==
    /\ pending[r] = Idle
    /\ LET c == DeleteLoanLoad(id)
       IN  IF c.err # OK THEN UNCHANGED pending
           ELSE pending' = [pending EXCEPT ![r] = [op |-> "delete", id |-> id]]
    /\ UNCHANGED <<loans, investments, nextLoanID, nextInvestmentID>>

BeginApproveLoan(r, id, approvalDetails) ==
    /\ pending[r] = Idle
    /\ LET c == ApproveLoanLoad(id, approvalDetails)
       IN  IF c.err # OK THEN UNCHANGED pending
           ELSE pending' = [pending EXCEPT ![r] = Saving("approve", c.loan)]
    /\ UNCHANGED <<loans, investments, nextLoanID, nextInvestmentID>>

BeginInvestInLoan(r, id, investorID, amount) ==
    /\ pending[r] = Idle
    /\ LET c == InvestInLoanLoad(id, investorID, amount)
       IN  IF c.err # OK THEN UNCHANGED <<pending, nextInvestmentID>>
           ELSE /\ nextInvestmentID < MaxInvestments
                /\ pending' = [pending EXCEPT ![r] = Saving("invest", c.loan)]
                /\ nextInvestmentID' = nextInvestmentID + 1
    /\ UNCHANGED <<loans, investments, nextLoanID>>

BeginDisburseLoan(r, id, disbursementDetails) ==
    /\ pending[r] = Idle
    /\ LET c == DisburseLoanLoad(id, disbursementDetails)
       IN  IF c.err # OK THEN UNCHANGED pending
           ELSE pending' = [pending EXCEPT ![r] = Saving("disburse", c.loan)]
    /\ UNCHANGED <<loans, investments, nextLoanID, nextInvestmentID>>

\* s.repo.Update(loan) of a call that passed its guards.
FinishSave(r) ==
    /\ pending[r].op \in SavingOps
    /\ Update(pending[r].loan)
    /\ pending' = [pending EXCEPT ![r] = Idle]
    /\ UNCHANGED <<nextLoanID, nextInvestmentID>>

\* s.repo.Delete(id) of a DeleteLoan that passed its guard.
FinishDelete(r) ==
    /\ pending[r].op = "delete"
    /\ Delete(pending[r].id)
    /\ pending' = [pending EXCEPT ![r] = Idle]
    /\ UNCHANGED <<nextLoanID, nextInvestmentID>>

\* Investors racing on loans that were created and approved one call at a time.
NextInvest ==
    \/ \E p \in CreatePrincipals, rate \in CreateRates, roi \in CreateROIs :
          CreateLoan(p, rate, roi)
    \/ \E id \in LoanIDs, a \in ApprovalInputs : ApproveLoan(id, a)
    \/ \E r \in Requests, id \in LoanIDs, i \in InvestorIDs, amount \in AmountInputs :
          BeginInvestInLoan(r, id, i, amount)
    \/ \E r \in Requests : FinishSave(r)

SpecInvest == Init /\ [][NextInvest]_vars

\* Every operation racing with every other.
NextConcurrent ==
    \/ \E p \in CreatePrincipals, rate \in CreateRates, roi \in CreateROIs :
          CreateLoan(p, rate, roi)
    \/ \E r \in Requests, id \in LoanIDs, u \in UpdateInputs : BeginUpdateLoan(r, id, u)
    \/ \E r \in Requests, id \in LoanIDs : BeginDeleteLoan(r, id)
    \/ \E r \in Requests, id \in LoanIDs, a \in ApprovalInputs :
          BeginApproveLoan(r, id, a)
    \/ \E r \in Requests, id \in LoanIDs, i \in InvestorIDs, amount \in AmountInputs :
          BeginInvestInLoan(r, id, i, amount)
    \/ \E r \in Requests, id \in LoanIDs, d \in DisbursementInputs :
          BeginDisburseLoan(r, id, d)
    \/ \E r \in Requests : FinishSave(r)
    \/ \E r \in Requests : FinishDelete(r)

SpecConcurrent == Init /\ [][NextConcurrent]_vars


\* ------------------------------------------------------------------ reading the transitions of a loan
\* GetLoanTransitions between the calls that move a loan through its lifecycle.
\* The slot of the request keeps what the call returned until the caller has
\* taken it; the calls are made one at a time, the next one starts when the
\* caller has taken the response of the last.
NoResponseHeld == \A q \in Requests : pending[q] = Idle

GetLoanTransitionsCall(r, id) ==
    /\ NoResponseHeld
    /\ LET t == GetLoanTransitions(id)
       IN  pending' = [pending EXCEPT ![r] =
                          [op |-> "transitions", id |-> id, err |-> t.err,
                           transitions |-> t.transitions]]
    /\ UNCHANGED <<loans, investments, nextLoanID, nextInvestmentID>>

GetLoanTransitionsReturn(r) ==
    /\ pending[r].op = "transitions"
    /\ pending' = [pending EXCEPT ![r] = Idle]
    /\ UNCHANGED <<loans, investments, nextLoanID, nextInvestmentID>>

NextTransitions ==
    \/ \E p \in CreatePrincipals, rate \in CreateRates, roi \in CreateROIs :
          NoResponseHeld /\ CreateLoan(p, rate, roi)
    \/ \E id \in LoanIDs : NoResponseHeld /\ DeleteLoan(id)
    \/ \E id \in LoanIDs, a \in ApprovalInputs : NoResponseHeld /\ ApproveLoan(id, a)
    \/ \E id \in LoanIDs, i \in InvestorIDs, amount \in AmountInputs :
          NoResponseHeld /\ InvestInLoan(id, i, amount)
    \/ \E id \in LoanIDs, d \in DisbursementInputs :
          NoResponseHeld /\ DisburseLoan(id, d)
    \/ \E r \in Requests, id \in LoanIDs : GetLoanTransitionsCall(r, id)
    \/ \E r \in Requests : GetLoanTransitionsReturn(r)

SpecTransitions == Init /\ [][NextTransitions]_vars

\* ------------------------------------------------------------------ the transitions endpoint
\* LoanHandler.GetLoanTransitions reads the loan twice: the service call that
\* computes the transitions, then GetLoan for the current_state of the
\* response.  Other requests run between the two loads.  The slot of the
\* request holds the transitions after the first load and the response after
\* the second.
TransitionsLoaded(id, transitions) ==
    [op |-> "transitions loaded", id |-> id, transitions |-> transitions]

TransitionResponse(code, currentState, transitions) ==
    [op |-> "response", code |-> code, current_state |-> currentState,
     transitions |-> transitions]

\* The error of the second load is dropped (loan, _ := ...); with no loan found
\* loan is nil and loan.Status panics, which the recovery middleware turns
\* into a 500 without data.
LoanHandlerTransitionsFirstLoad(r, id) ==
    /\ pending[r] = Idle
    /\ LET t == GetLoanTransitions(id)
       IN  pending' = [pending EXCEPT ![r] =
                          IF t.err # OK
                          THEN TransitionResponse(
                                  LoanHandlerGetLoanTransitions(id).code, "", <<>>)
                          ELSE TransitionsLoaded(id, t.transitions)]
    /\ UNCHANGED <<loans, investments, nextLoanID, nextInvestmentID>>

LoanHandlerTransitionsSecondLoad(r) ==
    /\ pending[r].op = "transitions loaded"
    /\ LET found == GetLoan(pending[r].id)
       IN  pending' = [pending EXCEPT ![r] =
                          IF found.err # OK
                          THEN TransitionResponse(500, "", <<>>)
                          ELSE TransitionResponse(
                                  200,
                                  GetCurrentState(
                                      SetCurrentState(NewFSM, found.loan.Status)),
                                  pending[r].transitions)]
    /\ UNCHANGED <<loans, investments, nextLoanID, nextInvestmentID>>

LoanHandlerTransitionsRespond(r) ==
    /\ pending[r].op = "response"
    /\ pending' = [pending EXCEPT ![r] = Idle]
    /\ UNCHANGED <<loans, investments, nextLoanID, nextInvestmentID>>

NextTransitionsEndpoint ==
    \/ \E p \in CreatePrincipals, rate \in CreateRates, roi \in CreateROIs :
          CreateLoan(p, rate, roi)
    \/ \E id \in LoanIDs : DeleteLoan(id)
    \/ \E id \in LoanIDs, a \in ApprovalInputs : ApproveLoan(id, a)
    \/ \E id \in LoanIDs, i \in InvestorIDs, amount \in AmountInputs :
          InvestInLoan(id, i, amount)
    \/ \E id \in LoanIDs, d \in DisbursementInputs : DisburseLoan(id, d)
    \/ \E r \in Requests, id \in LoanIDs : LoanHandlerTransitionsFirstLoad(r, id)
    \/ \E r \in Requests : LoanHandlerTransitionsSecondLoad(r)
    \/ \E r \in Requests : LoanHandlerTransitionsRespond(r)

SpecTransitionsEndpoint == Init /\ [][NextTransitionsEndpoint]_vars

\* ------------------------------------------------------------------ the FSM on its own
\* One FSM object per request, as NewFSM() returns it, driven through its
\* methods in any order.  Next to the object a slot keeps what the last
\* Transition and the last GetValidTransitions call returned.
FSMObject(fsm, err, transitions) ==
    [op |-> "fsm", fsm |-> fsm, err |-> err, transitions |-> transitions]

InitFSM ==
    /\ loans = [id \in {} |-> Nil]
    /\ investments = <<>>
    /\ nextLoanID = 0
    /\ nextInvestmentID = 0
    /\ pending = [r \in Requests |-> FSMObject(NewFSM, OK, <<>>)]

FSMSetCurrentState(r, state) ==
    /\ pending' = [pending EXCEPT ![r].fsm = SetCurrentState(@, state)]
    /\ UNCHANGED <<loans, investments, nextLoanID, nextInvestmentID>>

FSMTransition(r, to) ==
    /\ LET t == Transition(pending[r].fsm, to)
       IN  pending' = [pending EXCEPT ![r].fsm = t.fsm, ![r].err = t.err]
    /\ UNCHANGED <<loans, investments, nextLoanID, nextInvestmentID>>

FSMGetValidTransitions(r) ==
    /\ pending' = [pending EXCEPT
                      ![r].transitions = GetValidTransitions(pending[r].fsm)]
    /\ UNCHANGED <<loans, investments, nextLoanID, nextInvestmentID>>

NextFSM ==
    \/ \E r \in Requests, state \in LoanStatus : FSMSetCurrentState(r, state)
    \/ \E r \in Requests, to \in LoanStatus : FSMTransition(r, to)
    \/ \E r \in Requests : FSMGetValidTransitions(r)

SpecFSM == InitFSM /\ [][NextFSM]_vars

\* ------------------------------------------------------------------ several loans side by side
\* One loan more than MaxLoans, so that a call on one loan has another stored
\* loan beside it.  One value per request field keeps the state to the
\* lifecycles of the loans.
BesideLoans == MaxLoans + 1
BesideLoanIDs == {LoanID(i) : i \in 1..BesideLoans}
BesideUpdateInputs == {[NoUpdates EXCEPT !.rate = <<2>>, !.roi = <<2>>]}
BesideInvestorIDs == {"investor_001"}
BesideApprovalInputs == {a \in ApprovalInputs : a.FieldValidatorID = "validator_001"}
BesideDisbursementInputs ==
    {d \in DisbursementInputs : d.FieldOfficerID = "officer_001"}

CreateLoanBeside(principal, rate, roi) ==
    /\ nextLoanID < BesideLoans
    /\ Create(NewLoan(principal, rate, roi))
    /\ nextLoanID' = nextLoanID + 1
    /\ UNCHANGED <<nextInvestmentID, pending>>

\* The calls that carry a loan id, on the loan with this id.
CallOnLoan(id) ==
    \/ \E u \in BesideUpdateInputs : UpdateLoan(id, u)
    \/ DeleteLoan(id)
    \/ \E a \in BesideApprovalInputs : ApproveLoan(id, a)
    \/ \E i \in BesideInvestorIDs, amount \in AmountInputs :
          InvestInLoan(id, i, amount)
    \/ \E d \in BesideDisbursementInputs : DisburseLoan(id, d)

NextBeside ==
    \/ \E rate \in CreateRates, roi \in CreateROIs :
          CreateLoanBeside(MaxPrincipal, rate, roi)
    \/ \E id \in BesideLoanIDs, u \in BesideUpdateInputs : UpdateLoan(id, u)
    \/ \E id \in BesideLoanIDs : DeleteLoan(id)
    \/ \E id \in BesideLoanIDs, a \in BesideApprovalInputs : ApproveLoan(id, a)
    \/ \E id \in BesideLoanIDs, i \in BesideInvestorIDs, amount \in AmountInputs :
          InvestInLoan(id, i, amount)
    \/ \E id \in BesideLoanIDs, d \in BesideDisbursementInputs : DisburseLoan(id, d)

SpecBeside == Init /\ [][NextBeside]_vars

\* ------------------------------------------------------------------ properties
\* Position of a status in the lifecycle order.
Rank(status) ==
    CASE status = StatusProposed -> 0
      [] status = StatusApproved -> 1
      [] status = StatusInvested -> 2
      [] status = StatusDisbursed -> 3

RECURSIVE SumAmounts(_)
SumAmounts(records) ==
    IF records = <<>> THEN 0 ELSE Head(records).Amount + SumAmounts(Tail(records))

\* The loans a caller can load.
StoredLoans == {id \in DOMAIN loans : Visible(id)}

\* C1: after any sequence of service calls made one at a time, every stored
\* loan has 0 <= TotalInvested <= PrincipalAmount.
C1_TotalWithinPrincipal ==
    \A id \in StoredLoans :
        /\ 0 <= loans[id].TotalInvested
        /\ loans[id].TotalInvested <= loans[id].PrincipalAmount

\* C2: with InvestInLoan calls on the same loan in flight together, the amounts
\* of the investment records stored for a loan never add up to more than its
\* PrincipalAmount.
C2_AcceptedWithinPrincipal ==
    \A id \in StoredLoans : SumAmounts(Preload(id)) <= loans[id].PrincipalAmount

\* C3: with calls made one at a time, every step leaves the status of every loan
\* where it was or moves it to the next status of the order proposed, approved,
\* invested, disbursed: never backward, never over a status.
C3_StatusStepsForward ==
    [][\A id \in DOMAIN loans :
          Rank(loans'[id].Status) - Rank(loans[id].Status) \in {0, 1}]_vars

\* C3 witness: a loan that went through the whole lifecycle.
C3_Witness ==
    \E id \in StoredLoans :
        /\ loans[id].Status = StatusDisbursed
        /\ loans[id].ApprovalDetails # Nil
        /\ Len(Preload(id)) >= 1

\* C4: with calls on the same loan interleaving, no write moves the persisted
\* status of a loan backward.
C4_PersistedStatusNeverRegresses ==
    [][\A id \in DOMAIN loans :
          Rank(loans'[id].Status) >= Rank(loans[id].Status)]_vars

\* C5: after any sequence of calls made one at a time, the TotalInvested of
\* every loan is the sum of the amounts of its stored investment records.
C5_TotalIsSumOfRecords ==
    \A id \in DOMAIN loans : loans[id].TotalInvested = SumAmounts(Preload(id))

\* C5 witness: a loan funded by two investments.
C5_Witness ==
    \E id \in StoredLoans : Len(Preload(id)) >= 2 /\ loans[id].TotalInvested >= 2

\* C6: with InvestInLoan calls on the same loan in flight together, the persisted
\* TotalInvested of every stored loan is the sum of the amounts of its persisted
\* investment records.
C6_ConcurrentTotalIsSumOfRecords ==
    \A id \in StoredLoans : SumAmounts(Preload(id)) = loans[id].TotalInvested

\* C7: an investment on an approved loan with TotalInvested + amount >
\* PrincipalAmount returns 'total investment amount would exceed loan principal',
\* and the call changes neither the loan nor the investment records.
C7_ExceedingInvestmentRejected ==
    /\ [](\A id \in StoredLoans, i \in InvestorIDs, amount \in AmountInputs :
            (/\ loans[id].Status = StatusApproved
             /\ loans[id].TotalInvested + amount > loans[id].PrincipalAmount)
            => InvestInLoanLoad(id, i, amount).err = ErrExceedsPrincipal)
    /\ [][\A id \in StoredLoans, i \in InvestorIDs, amount \in AmountInputs :
            (/\ loans[id].Status = StatusApproved
             /\ loans[id].TotalInvested + amount > loans[id].PrincipalAmount)
            => \/ loans'[id] = loans[id] /\ investments' = investments
               \/ ~InvestInLoan(id, i, amount)]_vars

\* C7 witness: a partly funded approved loan, on which an investment of more
\* than the remaining capacity is rejected.
C7_Witness ==
    \E id \in StoredLoans, amount \in AmountInputs :
        /\ loans[id].Status = StatusApproved
        /\ loans[id].TotalInvested > 0
        /\ amount <= loans[id].PrincipalAmount
        /\ loans[id].TotalInvested + amount > loans[id].PrincipalAmount
        /\ InvestInLoanLoad(id, "investor_002", amount).err = ErrExceedsPrincipal

\* C8: an investment on a loan whose status is not approved returns 'loan is not
\* in approved status', and the call changes neither the loan nor the
\* investment records.
C8_InvestmentOutsideApprovedRejected ==
    /\ [](\A id \in StoredLoans, i \in InvestorIDs, amount \in AmountInputs :
            loans[id].Status # StatusApproved
            => InvestInLoanLoad(id, i, amount).err = ErrNotApproved)
    /\ [][\A id \in StoredLoans, i \in InvestorIDs, amount \in AmountInputs :
            loans[id].Status # StatusApproved
            => \/ loans'[id] = loans[id] /\ investments' = investments
               \/ ~InvestInLoan(id, i, amount)]_vars

\* C8 witness: a disbursed loan, on which every investment is rejected for its
\* status.
C8_Witness ==
    \E id \in StoredLoans :
        /\ loans[id].Status = StatusDisbursed
        /\ \A amount \in AmountInputs :
              InvestInLoanLoad(id, "investor_001", amount).err = ErrNotApproved

\* C9: an investment on an approved loan with TotalInvested + amount <=
\* PrincipalAmount is accepted, an amount equal to the remaining capacity
\* included; it leaves the status approved when the new total is below the
\* principal and moves it to invested, in the same call, when the new total
\* equals the principal.
C9_InvestmentFundsOrKeepsApproved ==
    /\ [](\A id \in StoredLoans, i \in InvestorIDs, amount \in AmountInputs :
            (/\ loans[id].Status = StatusApproved
             /\ loans[id].TotalInvested + amount <= loans[id].PrincipalAmount)
            => InvestInLoanLoad(id, i, amount).err = OK)
    /\ [][\A id \in StoredLoans, i \in InvestorIDs, amount \in AmountInputs :
            (/\ loans[id].Status = StatusApproved
             /\ loans[id].TotalInvested + amount <= loans[id].PrincipalAmount)
            => \/ /\ loans'[id].TotalInvested = loans[id].TotalInvested + amount
                  /\ loans'[id].Status =
                       IF loans[id].TotalInvested + amount = loans[id].PrincipalAmount
                       THEN StatusInvested ELSE StatusApproved
               \/ ~InvestInLoan(id, i, amount)]_vars

\* C9 witness: a loan that stayed approved after a first investment and became
\* invested by a second one of exactly the remaining amount.
C9_Witness ==
    \E id \in StoredLoans :
        /\ loans[id].Status = StatusInvested
        /\ Len(Preload(id)) = 2
        /\ loans[id].TotalInvested = loans[id].PrincipalAmount

\* C10: in every reachable state the status of a loan is invested or disbursed
\* exactly when TotalInvested >= PrincipalAmount.
C10_FundedIffInvestedOrDisbursed ==
    \A id \in StoredLoans :
        (loans[id].Status \in {StatusInvested, StatusDisbursed})
            <=> (loans[id].TotalInvested >= loans[id].PrincipalAmount)

\* C11: ApproveLoan on a loan whose status is approved, invested or disbursed
\* returns 'can only approve loans in proposed status', and the call leaves the
\* loan, the approval details of the first approval included, as it was.
C11_ReapprovalRejected ==
    /\ [](\A id \in StoredLoans, a \in ApprovalInputs :
            loans[id].Status # StatusProposed
            => ApproveLoanLoad(id, a).err = ErrApproveStatus)
    /\ [][\A id \in StoredLoans, a \in ApprovalInputs :
            loans[id].Status # StatusProposed
            => \/ loans'[id] = loans[id] /\ investments' = investments
               \/ ~ApproveLoan(id, a)]_vars

\* C11 witness: a loan approved by the first validator, on which an approval by
\* the second is rejected in each of the three later statuses.
C11_Witness ==
    \E id \in StoredLoans :
        /\ loans[id].Status = StatusInvested
        /\ loans[id].ApprovalDetails # Nil
        /\ loans[id].ApprovalDetails.FieldValidatorID = "validator_001"
        /\ ApproveLoanLoad(id, [FieldValidatorProof |-> "proof.jpg",
                                FieldValidatorID |-> "validator_002"]).err
              = ErrApproveStatus

\* C12: DisburseLoan on a loan that is not fully invested (status proposed, or
\* approved with no or a partial investment) returns 'can only disburse fully
\* invested loans', and the call leaves the loan as it was.
C12_DisburseBeforeFundingRejected ==
    /\ [](\A id \in StoredLoans, d \in DisbursementInputs :
            loans[id].Status \in {StatusProposed, StatusApproved}
            => DisburseLoanLoad(id, d).err = ErrDisburseStatus)
    /\ [][\A id \in StoredLoans, d \in DisbursementInputs :
            loans[id].Status \in {StatusProposed, StatusApproved}
            => \/ loans'[id] = loans[id] /\ investments' = investments
               \/ ~DisburseLoan(id, d)]_vars

\* C12 witness: an approved loan holding a partial investment, on which the
\* disbursement is rejected.
C12_Witness ==
    \E id \in StoredLoans, d \in DisbursementInputs :
        /\ loans[id].Status = StatusApproved
        /\ loans[id].TotalInvested > 0
        /\ loans[id].TotalInvested < loans[id].PrincipalAmount
        /\ DisburseLoanLoad(id, d).err = ErrDisburseStatus

\* C13: a second DisburseLoan on a disbursed loan returns 'can only disburse
\* fully invested loans', and the disbursement details of the first
\* disbursement stay as they were.
C13_SecondDisbursementRejected ==
    /\ [](\A id \in StoredLoans, d \in DisbursementInputs :
            loans[id].Status = StatusDisbursed
            => DisburseLoanLoad(id, d).err = ErrDisburseStatus)
    /\ [][\A id \in StoredLoans, d \in DisbursementInputs :
            loans[id].Status = StatusDisbursed
            => \/ loans'[id] = loans[id] /\ investments' = investments
               \/ ~DisburseLoan(id, d)]_vars

\* C13 witness: a loan disbursed by the first officer, on which a disbursement
\* by the second is rejected.
C13_Witness ==
    \E id \in StoredLoans :
        /\ loans[id].Status = StatusDisbursed
        /\ loans[id].DisbursementDetails # Nil
        /\ loans[id].DisbursementDetails.FieldOfficerID = "officer_001"
        /\ DisburseLoanLoad(id, [SignedAgreementLink |-> "signed.pdf",
                                 FieldOfficerID |-> "officer_002"]).err
              = ErrDisburseStatus

\* C14: with calls made one at a time, in every reachable state every stored
\* loan has approval details exactly when its status is approved, invested or
\* disbursed.
C14_ApprovalDetailsIffApproved ==
    \A id \in StoredLoans :
        (loans[id].ApprovalDetails # Nil) <=> (loans[id].Status # StatusProposed)

\* C14 witness: an approved loan that kept its approval details through the
\* save of an investment.
C14_Witness ==
    \E id \in StoredLoans :
        /\ loans[id].Status = StatusApproved
        /\ loans[id].TotalInvested > 0
        /\ loans[id].ApprovalDetails \in ApprovalInputs

\* C15: with calls made one at a time, in every reachable state every stored
\* loan has disbursement details exactly when its status is disbursed.
C15_DisbursementDetailsIffDisbursed ==
    \A id \in StoredLoans :
        (loans[id].DisbursementDetails # Nil) <=> (loans[id].Status = StatusDisbursed)

\* C15 witness: a disbursed loan holding the details of its disbursement.
C15_Witness ==
    \E id \in StoredLoans :
        /\ loans[id].Status = StatusDisbursed
        /\ loans[id].DisbursementDetails \in DisbursementInputs
        /\ loans[id].DisbursementDetails.FieldOfficerID = "officer_002"

\* C16: after any sequence of calls, UpdateLoan included, the
\* AgreementLetterLink of every stored loan whose status is proposed or approved
\* is empty.
C16_LinkEmptyBeforeFunding ==
    \A id \in StoredLoans :
        loans[id].Status \in {StatusProposed, StatusApproved}
        => loans[id].AgreementLetterLink = ""

C18_UpdateAfterApprovalRejected ==
    /\ [](\A id \in StoredLoans, u \in UpdateInputs :
            loans[id].Status # StatusProposed
            => UpdateLoanLoad(id, u).err = ErrUpdateStatus)
    /\ [][\A id \in StoredLoans :
            loans[id].Status # StatusProposed
            => /\ loans'[id].PrincipalAmount = loans[id].PrincipalAmount
               /\ loans'[id].Rate = loans[id].Rate
               /\ loans'[id].ROI = loans[id].ROI
               /\ \A u \in UpdateInputs :
                     \/ loans'[id] = loans[id] /\ investments' = investments
                     \/ ~UpdateLoan(id, u)]_vars

\* C18 witness: an approved loan whose rate was edited while it was proposed,
\* and on which an update of the principal is now rejected.
C18_Witness ==
    \E id \in StoredLoans :
        /\ loans[id].Status = StatusApproved
        /\ loans[id].PrincipalAmount = MaxPrincipal
        /\ loans[id].Rate = 2
        /\ UpdateLoanLoad(id, [NoUpdates EXCEPT !.principal_amount = <<1>>]).err
              = ErrUpdateStatus

\* C19: with calls made one at a time, DeleteLoan on an approved, invested or
\* disbursed loan returns 'can only delete loans in proposed status' and leaves
\* the loan stored as it was; a stored loan stops being loadable only by a
\* DeleteLoan on it while it is proposed; and a deleted loan is never loadable
\* again.
C19_OnlyProposedLoansDeleted ==
    /\ [](\A id \in StoredLoans :
            loans[id].Status # StatusProposed
            => DeleteLoanLoad(id).err = ErrDeleteStatus)
    /\ [][\A id \in DOMAIN loans :
            IF loans[id].DeletedAt
            THEN loans'[id] = loans[id]
            ELSE \/ ~loans'[id].DeletedAt
                 \/ /\ loans[id].Status = StatusProposed
                    /\ DeleteLoan(id)
                    /\ loans'[id] = [loans[id] EXCEPT !.DeletedAt = TRUE]]_vars
    /\ [][\A id \in StoredLoans :
            loans[id].Status # StatusProposed
            => \/ loans'[id] = loans[id] /\ investments' = investments
               \/ ~DeleteLoan(id)]_vars

\* C19 witness: a loan deleted while proposed, which FindByID no longer finds.
C19_Witness ==
    \E id \in DOMAIN loans :
        /\ loans[id].DeletedAt
        /\ loans[id].Status = StatusProposed
        /\ FindByID(id).err = ErrRecordNotFound

\* C20: with the service called directly, an InvestInLoan whose amount is not
\* greater than 0 is rejected, so every stored investment record has an amount
\* greater than 0.
C20_StoredAmountsPositive ==
    \A i \in 1..Len(investments) : investments[i].Amount > 0

\* C21: in every reachable state, UpdateLoan requests on a proposed loan
\* included, the PrincipalAmount of every stored loan is greater than 0.
C21_PrincipalPositive ==
    \A id \in StoredLoans : loans[id].PrincipalAmount > 0

\* C22: every call that returns an error, from the load (unknown id), from a
\* guard (wrong status, limit exceeded) or from its write at the end, leaves the
\* persisted loans and the persisted investment records as they were.
C22_ErrorLeavesPersistedStateUnchanged ==
    [][\/ UNCHANGED <<loans, investments>>
       \/ /\ \A id \in LoanIDs, u \in FailedSaveUpdateInputs :
                /\ UpdateLoanLoad(id, u).err # OK => ~UpdateLoan(id, u)
                /\ ~UpdateLoanFailedSave(id, u)
          /\ \A id \in LoanIDs :
                /\ DeleteLoanLoad(id).err # OK => ~DeleteLoan(id)
                /\ ~DeleteLoanFailedDelete(id)
          /\ \A id \in LoanIDs, a \in ApprovalInputs :
                /\ ApproveLoanLoad(id, a).err # OK => ~ApproveLoan(id, a)
                /\ ~ApproveLoanFailedSave(id, a)
          /\ \A id \in LoanIDs, i \in InvestorIDs, amount \in AmountInputs :
                /\ InvestInLoanLoad(id, i, amount).err # OK
                      => ~InvestInLoan(id, i, amount)
                /\ ~InvestInLoanFailedSave(id, i, amount)
          /\ \A id \in LoanIDs, d \in DisbursementInputs :
                /\ DisburseLoanLoad(id, d).err # OK => ~DisburseLoan(id, d)
                /\ ~DisburseLoanFailedSave(id, d)]_vars

\* C22 witness: an approved loan holding a partial investment, on which an
\* investment over the limit is rejected by the guard and an investment within
\* the limit can reach the save that fails; an identifier was used up by an
\* investment whose save failed.
C22_Witness ==
    \E id \in StoredLoans :
        /\ loans[id].Status = StatusApproved
        /\ Len(investments) = 1
        /\ nextInvestmentID = 2
        /\ InvestInLoanLoad(id, "investor_001", MaxAmount).err = ErrExceedsPrincipal
        /\ InvestInLoanLoad(id, "investor_001", 1).err = OK

\* C23: for a loan id that is not stored, get, update, delete, approve, invest,
\* disburse and transitions all answer with the same not-found response.
C23_UnknownIDSameOutcome ==
    \A id \in LoanIDs \ StoredLoans :
        LET notFound == LoanHandlerGetLoan(id)
        IN  /\ \A u \in UpdateInputs : LoanHandlerUpdateLoan(id, u) = notFound
            /\ LoanHandlerDeleteLoan(id) = notFound
            /\ \A a \in ApprovalInputs : LoanHandlerApproveLoan(id, a) = notFound
            /\ \A i \in InvestorIDs, amount \in AmountInputs :
                  LoanHandlerInvestLoan(id, i, amount) = notFound
            /\ \A d \in DisbursementInputs :
                  LoanHandlerDisburseLoan(id, d) = notFound
            /\ LoanHandlerGetLoanTransitions(id) = notFound

\* C24: for every current state, GetValidTransitions returns exactly the edges
\* of the graph that start there: proposed to approved (approve), approved to
\* invested (invest), invested to disbursed (disburse), none from disbursed.
C24_ValidTransitionsAreOutgoingEdges ==
    /\ [](\A r \in Requests :
            GetValidTransitions(pending[r].fsm) =
                CASE pending[r].fsm.CurrentState = StatusProposed ->
                        <<[From |-> "proposed", To |-> "approved", Action |-> "approve"]>>
                  [] pending[r].fsm.CurrentState = StatusApproved ->
                        <<[From |-> "approved", To |-> "invested", Action |-> "invest"]>>
                  [] pending[r].fsm.CurrentState = StatusInvested ->
                        <<[From |-> "invested", To |-> "disbursed",
                           Action |-> "disburse"]>>
                  [] pending[r].fsm.CurrentState = StatusDisbursed -> <<>>)
    /\ [][\A r \in Requests :
            \/ ~FSMGetValidTransitions(r)
            \/ pending'[r].transitions =
                CASE pending[r].fsm.CurrentState = StatusProposed ->
                        <<[From |-> "proposed", To |-> "approved", Action |-> "approve"]>>
                  [] pending[r].fsm.CurrentState = StatusApproved ->
                        <<[From |-> "approved", To |-> "invested", Action |-> "invest"]>>
                  [] pending[r].fsm.CurrentState = StatusInvested ->
                        <<[From |-> "invested", To |-> "disbursed",
                           Action |-> "disburse"]>>
                  [] pending[r].fsm.CurrentState = StatusDisbursed -> <<>>]_vars

\* C24 witness: an FSM in state invested whose last GetValidTransitions call
\* returned the edge to disbursed, next to one in state disbursed.
C24_Witness ==
    \E r, q \in Requests :
        /\ pending[r].fsm.CurrentState = StatusInvested
        /\ pending[r].transitions =
              <<[From |-> "invested", To |-> "disbursed", Action |-> "disburse"]>>
        /\ pending[q].fsm.CurrentState = StatusDisbursed
        /\ pending[q].transitions = <<>>

\* C25: Transition(to) returns no error and sets the current state to `to`
\* exactly when the graph has an edge from the current state to `to`; otherwise
\* it returns an error and leaves the current state as it was, so a transition
\* to the same state, to an earlier state or over a state fails.
C25_TransitionIffEdge ==
    /\ [](\A r \in Requests, to \in LoanStatus :
            (Transition(pending[r].fsm, to).err = OK)
                <=> <<pending[r].fsm.CurrentState, to>> \in
                        {<<"proposed", "approved">>, <<"approved", "invested">>,
                         <<"invested", "disbursed">>})
    /\ [][\A r \in Requests, to \in LoanStatus :
            \/ ~FSMTransition(r, to)
            \/ IF <<pending[r].fsm.CurrentState, to>> \in
                      {<<"proposed", "approved">>, <<"approved", "invested">>,
                       <<"invested", "disbursed">>}
               THEN /\ pending'[r].err = OK
                    /\ pending'[r].fsm.CurrentState = to
               ELSE /\ pending'[r].err = ErrInvalidTransition
                    /\ pending'[r].fsm.CurrentState = pending[r].fsm.CurrentState]_vars

\* C25 witness: an FSM in state disbursed whose last Transition call failed,
\* next to one in state approved whose last Transition call succeeded.
C25_Witness ==
    \E r, q \in Requests :
        /\ pending[r].fsm.CurrentState = StatusDisbursed
        /\ pending[r].err = ErrInvalidTransition
        /\ pending[q].fsm.CurrentState = StatusApproved
        /\ pending[q].err = OK

\* C26: GetLoanTransitions on a stored loan returns exactly the edges of the
\* graph that start at the persisted status of the loan (none for a disbursed
\* loan), and the call changes no persisted loan and no investment record.
C26_LoanTransitionsFromPersistedStatus ==
    /\ [](\A id \in StoredLoans :
            GetLoanTransitions(id) =
                [err |-> OK,
                 transitions |->
                    CASE loans[id].Status = "proposed" ->
                            <<[From |-> "proposed", To |-> "approved",
                               Action |-> "approve"]>>
                      [] loans[id].Status = "approved" ->
                            <<[From |-> "approved", To |-> "invested",
                               Action |-> "invest"]>>
                      [] loans[id].Status = "invested" ->
                            <<[From |-> "invested", To |-> "disbursed",
                               Action |-> "disburse"]>>
                      [] loans[id].Status = "disbursed" -> <<>>])
    /\ [][\A r \in Requests, id \in LoanIDs :
            \/ ~GetLoanTransitionsCall(r, id)
            \/ /\ UNCHANGED <<loans, investments>>
               /\ id \in StoredLoans =>
                     /\ pending'[r].err = OK
                     /\ \A k \in 1..Len(pending'[r].transitions) :
                           pending'[r].transitions[k].From = loans[id].Status
                     /\ Len(pending'[r].transitions) =
                           IF loans[id].Status = "disbursed" THEN 0 ELSE 1]_vars

\* C26 witness: the call on a disbursed loan returned the empty list, and the
\* loan is still stored as disbursed.
C26_Witness ==
    \E r \in Requests :
        /\ pending[r].op = "transitions"
        /\ pending[r].err = OK
        /\ pending[r].transitions = <<>>
        /\ pending[r].id \in StoredLoans
        /\ loans[pending[r].id].Status = StatusDisbursed

\* C27: whatever the caller put into the loan, the loan CreateLoan stores has
\* status proposed, TotalInvested 0, no approval details, no disbursement
\* details and no investment records.
C27_CreatedLoanIsClean ==
    [][\A id \in LoanIDs :
          (id \notin DOMAIN loans /\ id \in DOMAIN loans')
          => /\ loans'[id].Status = StatusProposed
             /\ loans'[id].TotalInvested = 0
             /\ loans'[id].ApprovalDetails = Nil
             /\ loans'[id].DisbursementDetails = Nil
             /\ \A k \in 1..Len(investments') : investments'[k].LoanID # id]_vars

\* C28: with calls made one at a time, the investment records are append-only:
\* every step keeps the stored records as they were and in their order and adds
\* at most one; an accepted InvestInLoan adds exactly one record, at the end,
\* with the loan id, the investor id and the amount of the call; a step that
\* adds a record is such a call.  (A step that changes no variable satisfies
\* [A]_vars whatever A says; the last conjunct spells that case out first.)
C28_InvestmentsAppendOnly ==
    [][/\ Len(investments') - Len(investments) \in {0, 1}
       /\ SubSeq(investments', 1, Len(investments)) = investments
       /\ Len(investments') = Len(investments) + 1
            => LET new == investments'[Len(investments')]
               IN  /\ new.LoanID \in StoredLoans
                   /\ new.InvestorID \in InvestorIDs
                   /\ new.Amount \in AmountInputs
                   /\ InvestInLoan(new.LoanID, new.InvestorID, new.Amount)
       /\ \/ UNCHANGED vars
          \/ \A id \in StoredLoans, i \in InvestorIDs, amount \in AmountInputs :
                (/\ loans[id].Status = StatusApproved
                 /\ loans[id].TotalInvested + amount <= loans[id].PrincipalAmount)
                => \/ /\ Len(investments') = Len(investments) + 1
                      /\ investments'[Len(investments')].LoanID = id
                      /\ investments'[Len(investments')].InvestorID = i
                      /\ investments'[Len(investments')].Amount = amount
                   \/ ~InvestInLoan(id, i, amount)]_vars

\* C28 witness: two records of one loan, stored in the order of the calls by
\* two investors.
C28_Witness ==
    /\ Len(investments) = 2
    /\ investments[1].LoanID = investments[2].LoanID
    /\ investments[1].InvestorID = "investor_002"
    /\ investments[2].InvestorID = "investor_001"
    /\ investments[1].ID # investments[2].ID

\* C29: with several loans stored and calls made one at a time, every call that
\* carries a loan id leaves every other row of table loans (status, amounts,
\* detail records, deletion mark) and the investment records of every other
\* loan as they were; creating a loan leaves every stored loan as it was.
C29_OtherLoansUnchanged ==
    [][\/ UNCHANGED vars
       \/ /\ \A id \in BesideLoanIDs :
                \/ \A other \in DOMAIN loans \ {id} :
                      /\ other \in DOMAIN loans'
                      /\ loans'[other] = loans[other]
                      /\ SelectSeq(investments', LAMBDA i : i.LoanID = other)
                            = Preload(other)
                \/ ~CallOnLoan(id)
          /\ \/ nextLoanID' = nextLoanID
             \/ \A other \in DOMAIN loans :
                   /\ other \in DOMAIN loans'
                   /\ loans'[other] = loans[other]
                   /\ SelectSeq(investments', LAMBDA i : i.LoanID = other)
                         = Preload(other)]_vars

\* Loan 2 went from creation to disbursement while loan 1 stayed approved with
\* its one record.
C29_Witness ==
    /\ DOMAIN loans = {LoanID(1), LoanID(2)}
    /\ loans[LoanID(1)].Status = StatusApproved
    /\ loans[LoanID(1)].TotalInvested = 1
    /\ Len(Preload(LoanID(1))) = 1
    /\ loans[LoanID(2)].Status = StatusDisbursed
    /\ Len(Preload(LoanID(2))) = 1
    /\ investments[1].LoanID = LoanID(1)

\* C30: with calls made one at a time, the outcome of InvestInLoan is a function
\* of the loan's status, PrincipalAmount, TotalInvested and the amount alone:
\* for every investor id and whatever records the loan holds, the call is
\* rejected iff the loan is not approved or the amount exceeds what is left,
\* and an accepted call stores TotalInvested plus the amount and the status
\* that sum gives.  Runs that differ in the investor ids therefore go through
\* the same outcomes; no amount is too small and no investor is capped.
C30_OutcomeIgnoresInvestor ==
    /\ [](\A id \in StoredLoans, i \in InvestorIDs, amount \in AmountInputs :
            LET c == InvestInLoanLoad(id, i, amount)
                total == loans[id].TotalInvested + amount
            IN  /\ c.err = IF loans[id].Status # StatusApproved THEN ErrNotApproved
                           ELSE IF total > loans[id].PrincipalAmount
                           THEN ErrExceedsPrincipal
                           ELSE OK
                /\ c.err = OK
                     => /\ c.loan.TotalInvested = total
                        /\ c.loan.Status = IF total >= loans[id].PrincipalAmount
                                           THEN StatusInvested
                                           ELSE StatusApproved)
    /\ [][\/ UNCHANGED vars
          \/ \A id \in StoredLoans, i \in InvestorIDs, amount \in AmountInputs :
               \/ /\ loans'[id].TotalInvested = loans[id].TotalInvested + amount
                  /\ loans'[id].Status =
                        IF loans[id].TotalInvested + amount >= loans[id].PrincipalAmount
                        THEN StatusInvested
                        ELSE StatusApproved
               \/ ~InvestInLoan(id, i, amount)]_vars

\* One investor funded the whole loan in two installments of the smallest amount.
C30_Witness ==
    \E id \in StoredLoans :
        /\ loans[id].Status = StatusInvested
        /\ Len(Preload(id)) = 2
        /\ \A k \in 1..2 :
              /\ Preload(id)[k].InvestorID = "investor_001"
              /\ Preload(id)[k].Amount = 1

\* C31: with calls made one at a time, on a loan whose status is disbursed
\* every UpdateLoan, DeleteLoan, ApproveLoan, InvestInLoan and DisburseLoan
\* returns an error, and no step changes its row (status, amounts, link, detail
\* records, deletion mark) or its investment records.
C31_DisbursedIsTerminal ==
    /\ [](\A id \in StoredLoans :
            loans[id].Status = StatusDisbursed
            => /\ \A u \in UpdateInputs : UpdateLoanLoad(id, u).err = ErrUpdateStatus
               /\ DeleteLoanLoad(id).err = ErrDeleteStatus
               /\ \A a \in ApprovalInputs :
                     ApproveLoanLoad(id, a).err = ErrApproveStatus
               /\ \A i \in InvestorIDs, amount \in AmountInputs :
                     InvestInLoanLoad(id, i, amount).err = ErrNotApproved
               /\ \A d \in DisbursementInputs :
                     DisburseLoanLoad(id, d).err = ErrDisburseStatus)
    /\ [][\A id \in DOMAIN loans :
            loans[id].Status = StatusDisbursed
            => /\ id \in DOMAIN loans'
               /\ loans'[id] = loans[id]
               /\ SelectSeq(investments', LAMBDA i : i.LoanID = id) = Preload(id)]_vars

\* C31 witness: a disbursed loan, still stored, funded in two installments.
C31_Witness ==
    \E id \in StoredLoans :
        /\ loans[id].Status = StatusDisbursed
        /\ loans[id].DisbursementDetails \in DisbursementInputs
        /\ Len(Preload(id)) = 2
        /\ DeleteLoanLoad(id).err = ErrDeleteStatus

\* C32: an investment on a stored loan that is not approved and whose amount
\* would also take TotalInvested past PrincipalAmount returns 'loan is not in
\* approved status', not the limit error.
C32_StatusCheckedBeforeCapacity ==
    \A id \in StoredLoans, i \in InvestorIDs, amount \in AmountInputs :
        (/\ loans[id].Status # StatusApproved
         /\ loans[id].TotalInvested + amount > loans[id].PrincipalAmount)
        => /\ InvestInLoanLoad(id, i, amount).err = ErrNotApproved
           /\ InvestInLoanLoad(id, i, amount).err # ErrExceedsPrincipal

\* C32 witness: a funded loan with no capacity left, on which an investment of
\* the smallest amount fails on the status.
C32_Witness ==
    \E id \in StoredLoans :
        /\ loans[id].Status = StatusInvested
        /\ loans[id].TotalInvested = loans[id].PrincipalAmount
        /\ loans[id].TotalInvested + 1 > loans[id].PrincipalAmount
        /\ InvestInLoanLoad(id, "investor_001", 1).err = ErrNotApproved

\* C33: with calls made one at a time, an accepted ApproveLoan stores status
\* approved and the approval details of the call, an accepted DisburseLoan
\* stores status disbursed and the disbursement details of the call; every
\* other column of the row (PrincipalAmount, Rate, ROI, TotalInvested,
\* AgreementLetterLink, the other detail record) and every investment record
\* keeps its value.  (A rejected call changes no variable.)
C33_ApproveAndDisburseFrame ==
    [][\/ UNCHANGED vars
       \/ \A id \in StoredLoans :
            /\ \A a \in ApprovalInputs :
                  \/ /\ loans' = [loans EXCEPT ![id].Status = StatusApproved,
                                                ![id].ApprovalDetails = a]
                     /\ investments' = investments
                  \/ ~ApproveLoan(id, a)
            /\ \A d \in DisbursementInputs :
                  \/ /\ loans' = [loans EXCEPT ![id].Status = StatusDisbursed,
                                                ![id].DisbursementDetails = d]
                     /\ investments' = investments
                  \/ ~DisburseLoan(id, d)]_vars

\* C33 witness: a disbursed loan that still carries the rate an update gave it
\* before the approval, the approval details, its two investment records, a
\* total equal to the principal and the generated link.
C33_Witness ==
    \E id \in StoredLoans :
        /\ loans[id].Status = StatusDisbursed
        /\ loans[id].Rate = 2
        /\ loans[id].ApprovalDetails \in ApprovalInputs
        /\ loans[id].ApprovalDetails.FieldValidatorID = "validator_002"
        /\ loans[id].DisbursementDetails \in DisbursementInputs
        /\ Len(Preload(id)) = 2
        /\ loans[id].TotalInvested = loans[id].PrincipalAmount
        /\ loans[id].AgreementLetterLink # ""

\* C34: with DisburseLoan calls on one loan in flight together, a DisburseLoan
\* that completes its save (and so returns the loan and no error) finds the
\* stored loan without disbursement details: at most one call succeeds and the
\* details, once written, are not overwritten by the other call.
C34_DisbursementWrittenOnce ==
    [][\A r \in Requests :
          (pending[r].op = "disburse" /\ pending'[r] = Idle)
          => loans[pending[r].loan.ID].DisbursementDetails = Nil]_vars

\* C35: with ApproveLoan calls on one loan in flight together, an ApproveLoan
\* that completes its save (and so returns the loan and no error) finds the
\* stored loan without approval details: at most one call succeeds and the
\* approval details stored are not overwritten by the other.
C35_ApprovalWrittenOnce ==
    [][\A r \in Requests :
          (pending[r].op = "approve" /\ pending'[r] = Idle)
          => loans[pending[r].loan.ID].ApprovalDetails = Nil]_vars

\* C36: with DeleteLoan in flight together with the calls that advance a loan,
\* every step that marks a row of table loans deleted finds its stored status
\* proposed.
C36_DeleteFindsProposed ==
    [][\A id \in DOMAIN loans :
          (~loans[id].DeletedAt /\ loans'[id].DeletedAt)
          => loans[id].Status = StatusProposed]_vars

\* C37: with UpdateLoan, ApproveLoan, InvestInLoan and DisburseLoan calls on
\* one loan in flight together, every row of table loans by itself has
\* TotalInvested <= PrincipalAmount, and TotalInvested >= PrincipalAmount when
\* its status is invested or disbursed.
C37_PersistedRowConsistent ==
    \A id \in DOMAIN loans :
        /\ loans[id].TotalInvested <= loans[id].PrincipalAmount
        /\ loans[id].Status \in {StatusInvested, StatusDisbursed}
             => loans[id].TotalInvested >= loans[id].PrincipalAmount

\* C38: every 200 response of the transitions endpoint is one snapshot: the
\* From of each transition it returns equals the current_state it returns,
\* whatever other requests do between the two loads of the handler.
C38_TransitionsResponseIsSnapshot ==
    \A r \in Requests :
        (pending[r].op = "response" /\ pending[r].code = 200)
        => \A k \in 1..Len(pending[r].transitions) :
              pending[r].transitions[k].From = pending[r].current_state

\* C39: every stored loan can take the next step of its lifecycle: a proposed
\* loan accepts an approval; an approved loan has a positive amount left
\* (PrincipalAmount - TotalInvested), an investment of exactly that amount is
\* accepted and funds the loan; an invested loan accepts a disbursement.  So a
\* loan for which these calls are made in turn reaches disbursed, and no
\* approved loan rejects every investment with a positive amount.
C39_LifecycleCanComplete ==
    \A id \in StoredLoans :
        /\ loans[id].Status = StatusProposed
             => \A a \in ApprovalInputs : ApproveLoanLoad(id, a).err = OK
        /\ loans[id].Status = StatusApproved
             => LET remaining == loans[id].PrincipalAmount - loans[id].TotalInvested
                    c == InvestInLoanLoad(id, "investor_001", remaining)
                IN  /\ remaining > 0
                    /\ c.err = OK
                    /\ c.loan.Status = StatusInvested
        /\ loans[id].Status = StatusInvested
             => \A d \in DisbursementInputs : DisburseLoanLoad(id, d).err = OK

====
